---- MODULE Spec2Model ----
(***************************************************************************)
(* A model of the duty-cycle scheduler of src/app.py (class App), of the   *)
(* connection health monitor of src/client.py (class MQTT) and of the      *)
(* capture script of src/client.py (class App).                            *)
(*                                                                         *)
(* Time is the RTC clock in whole seconds.  A day of the model has         *)
(* (MaxHour+1)*(MaxMinute+1)*(MaxSecond+1) seconds, so that a time of day  *)
(* is an <<hour, minute, second>> triple compared the way Python compares  *)
(* datetime.time objects.                                                  *)
(*                                                                         *)
(* The modules system (System, RTC), mqtt and static_config that app.py    *)
(* imports are not part of the sources: System.shutdown, and               *)
(* MQTT.is_config_changed are modelled from the specification.             *)
(*                                                                         *)
(* A time string of the configuration is an <<hour, minute, second>>       *)
(* triple too; it is well formed ("%H:%M:%S") when its fields are in       *)
(* range.                                                                  *)
(***************************************************************************)
EXTENDS Integers, Sequences, FiniteSets, TLC

VARIABLES
    pc,                 \* position of the scheduler process
    boot_shutdown_time, \* App.boot_shutdown_time: None or <<seconds>>
    last_shutdown_time, \* App.last_shutdown_time: None or <<timestamp>>
    now,                \* the RTC clock, in seconds
    basic_config,       \* App.basic_config: period, wake_up_time, shut_down_time
    shutdown_threshold, \* static_config.SHUTDOWN_THRESHOLD
    config_changed,     \* a configuration change was delivered and is pending
    start_time,         \* start_time of run_with_time_measure
    waiting_time,       \* the value run_with_time_measure returned this cycle
    entry_overhead,     \* boot_shutdown_time as it was when this cycle's decision began
    ops,                \* what the process did since the cycle (or the gate) began
    boots,              \* power cycles so far
    survived,           \* last_shutdown_time as it was at the last power-off
    config_file,        \* the configuration file App.load_config reads
    exit_code,          \* None, or <<the code the process exited with>>
    cycle,              \* how the run of the current cycle went
    capp,               \* the App object of src/client.py and the mocks of its test
    client,             \* MQTT.client: state of the broker link
    reconnect_counter,  \* MQTT.reconnect_counter
    hpc,                \* position of the on_disconnect handler
    reboots,            \* number of exit(2) calls
    streak,             \* involuntary disconnects handled since the last success
    attempts,           \* reconnect attempts the handler made since the last success
    waits,              \* backoff waits the handler made since the last success
    replaced            \* handlers still running in the threads of replaced clients

schedVars == <<pc, boot_shutdown_time, last_shutdown_time, now, basic_config,
               shutdown_threshold, config_changed, start_time, waiting_time,
               entry_overhead, ops, boots, survived, config_file, exit_code, cycle,
               capp>>
monVars == <<client, reconnect_counter, hpc, reboots, streak, attempts, waits,
             replaced>>
vars == <<schedVars, monVars>>

----------------------------------------------------------------------------
(* Bounds of the model *)

MaxHour == 1
MaxMinute == 1
MaxSecond == 1
MaxStart == 3
MaxClock == 14
MaxPeriod == 3
MaxElapsed == 3
MaxThreshold == 1
MaxOverhead == 3
MaxBootTime == 2
MaxDrift == 1
MaxBoots == 2
MaxReplaced == 1
MaxConcTime == 4

----------------------------------------------------------------------------
(* Python's None and a set value *)

None == <<>>
Some(v) == <<v>>
Val(o) == o[1]

Max(a, b) == IF a >= b THEN a ELSE b

----------------------------------------------------------------------------
(* Times of day *)

DayLen == (MaxHour + 1) * (MaxMinute + 1) * (MaxSecond + 1)

TimesOfDay == (0..MaxHour) \X (0..MaxMinute) \X (0..MaxSecond)

\* datetime.fromisoformat(RTC.get_time()).time(): the time of day of a timestamp
TimeOfDay(t) ==
    << (t \div ((MaxMinute + 1) * (MaxSecond + 1))) % (MaxHour + 1),
       (t \div (MaxSecond + 1)) % (MaxMinute + 1),
       t % (MaxSecond + 1) >>

\* datetime.time.__lt__: field by field, hour first
TimeLT(a, b) ==
    \/ a[1] < b[1]
    \/ a[1] = b[1] /\ a[2] < b[2]
    \/ a[1] = b[1] /\ a[2] = b[2] /\ a[3] < b[3]

TimeGE(a, b) == ~TimeLT(a, b)

\* A faulty variant of the gate: the shut_down_time boundary is taken as still inside
WorkingTimeShutdownStrict(wake_up_time, shut_down_time, current_time) ==
    IF TimeLT(wake_up_time, shut_down_time)
         /\ (TimeLT(current_time, wake_up_time) \/ TimeLT(shut_down_time, current_time))
    THEN TRUE
    ELSE TimeLT(shut_down_time, current_time) /\ TimeLT(current_time, wake_up_time)

\* App.working_time_check: TRUE iff it calls System.shutdown()
WorkingTimeShutdown(wake_up_time, shut_down_time, current_time) ==
    IF TimeLT(wake_up_time, shut_down_time)
         /\ (TimeLT(current_time, wake_up_time) \/ TimeGE(current_time, shut_down_time))
    THEN TRUE
    ELSE TimeGE(current_time, shut_down_time) /\ TimeLT(current_time, wake_up_time)

----------------------------------------------------------------------------
(* The scheduler: src/app.py *)

\* Configurations as App.load_config (lines 50-72) returns them
Configs == [period : 1..MaxPeriod, wake_up_time : TimesOfDay, shut_down_time : TimesOfDay]

\* Times of day on the hour ("06:00:00", "20:00:00")
HourTimes == {<<h, 0, 0>> : h \in 0..MaxHour}

\* The configurations whose window starts and ends on the hour
HourConfigs == {c \in Configs : c.wake_up_time \in HourTimes /\ c.shut_down_time \in HourTimes}

\* A faulty variant of line 245: the waiting time is returned as computed
WaitingTimeUnclamped(period, start, end) == period - (end - start)

\* run_with_time_measure, lines 243-245
WaitingTime(period, start, end) == Max(period - (end - start), 0)

\* A faulty variant of line 211: a waiting time equal to the threshold exceeds it
ThresholdExceededGE(w, threshold, overhead) == w >= threshold /\ overhead # None

\* line 211
ThresholdExceeded(w, threshold, overhead) == w > threshold /\ overhead # None

\* A faulty variant of line 213: the overhead is not taken off the waiting time
ShutdownDurationNoOverhead(w, overhead) == w

\* line 213
ShutdownDuration(w, overhead) == w - Val(overhead)

\* A faulty variant of line 214: a shutdown of no duration is taken as worth it
WorthShutdownGE(w, overhead) == ShutdownDuration(w, overhead) >= 0

\* line 214
WorthShutdown(w, overhead) == ShutdownDuration(w, overhead) > 0

\* lines 206-207: the measured boot and shutdown time
MeasuredOverhead(current_time, pending) == current_time - Val(pending)

\* The exit codes of the process
ConfigChangeExit == 1
LoadErrorExit == 1
PublishErrorExit == 1
RebootExit == 2

\* A time string that strptime(..., "%H:%M:%S") parses (lines 90-95)
WellFormed(s) == s \in TimesOfDay

\* A time string with the hour out of range
Malformed == <<MaxHour + 1, 0, 0>>

\* The run of a cycle that has not failed
NoFailure == [failure |-> "none", logged |-> FALSE]

\* The script of src/client.py is not run: no App object of it, no mocks
NoClientApp ==
    [pc |-> "none", file |-> "ok", mock_ok |-> TRUE, called |-> "none", mount_runs |-> 0,
     exits |-> <<>>, infos |-> {}, criticals |-> {}, end_time |-> 0]

\* The file was read into basic_config and the process has not exited
ConfigLoaded ==
    /\ config_file = [status |-> "ok", basic |-> basic_config]
    /\ exit_code = None
    /\ cycle = NoFailure
    /\ capp = NoClientApp

\* The state every part of the monitor is left in by the scheduler's steps
MonInit ==
    /\ client = "none"
    /\ reconnect_counter = 0
    /\ hpc = "idle"
    /\ reboots = 0
    /\ streak = 0
    /\ attempts = 0
    /\ waits = 0
    /\ replaced = <<>>

\* App.__init__ (lines 42-47) on a freshly started process
Init ==
    /\ pc = "start"
    /\ boot_shutdown_time = None
    /\ last_shutdown_time = None
    /\ now \in 0..MaxStart
    /\ basic_config \in HourConfigs
    /\ shutdown_threshold \in 0..MaxThreshold
    /\ config_changed = FALSE
    /\ start_time = 0
    /\ waiting_time = 0
    /\ entry_overhead = None
    /\ ops = <<>>
    /\ boots = 0
    /\ survived = None
    /\ ConfigLoaded
    /\ MonInit

\* App.start (lines 157-160): the operating-window gate, then camera.start().  The
\* gate parses the two time strings first (lines 90-95); strptime raises ValueError
\* on a malformed one and nothing catches it
AppStart ==
    /\ pc = "start"
    /\ ops' = << <<"working_time_check", now>> >>
    /\ pc' = IF ~WellFormed(basic_config.wake_up_time)
                  \/ ~WellFormed(basic_config.shut_down_time)
             THEN "crashed"
             ELSE IF WorkingTimeShutdown(basic_config.wake_up_time,
                                         basic_config.shut_down_time, TimeOfDay(now))
             THEN "gate_shutdown" ELSE "loop"
    /\ UNCHANGED <<boot_shutdown_time, last_shutdown_time, now, basic_config,
                   shutdown_threshold, config_changed, start_time, waiting_time,
                   entry_overhead,
                   boots, survived, config_file, capp, exit_code, cycle>>
    /\ UNCHANGED monVars

\* MQTT.connect (src/client.py lines 83-90): a new client, client.connect() and
\* loop_start().  connect() returns (ok) or raises because the broker cannot be
\* reached (the TODO of line 88); the new client's network thread starts idle.
\* Nothing stops the network thread of the client that self.client held before:
\* a handler that sleeps there (line 75) goes on in that thread, and its
\* self.client (line 76) is the new client from now on
MqttConnect(ok) ==
    /\ hpc = "backoff" => Len(replaced) < MaxReplaced
    /\ client' = IF ok THEN "connecting" ELSE "down"
    /\ hpc' = IF ok THEN "idle" ELSE hpc
    /\ replaced' = IF ok /\ hpc = "backoff" THEN Append(replaced, "backoff")
                   ELSE replaced
    /\ UNCHANGED <<reconnect_counter, reboots, streak, attempts, waits>>

\* run_with_time_measure and App.run up to the publish (lines 239, 174-181): the
\* start time is read, the message is made (captured: get_message returned) and,
\* if the client is not connected, connect_mqtt is called; an exception of either
\* is logged and raised again (lines 185-187) and leaves run_periodically
RunBegin ==
    /\ pc = "loop"
    /\ start_time' = now
    /\ ops' = <<>>
    /\ entry_overhead' = None
    /\ \E captured \in BOOLEAN :
        IF ~captured
        THEN /\ pc' = "crashed"
             /\ cycle' = [failure |-> "capture", logged |-> TRUE]
             /\ UNCHANGED monVars
        ELSE IF client = "up"
        THEN /\ pc' = "publish"
             /\ cycle' = NoFailure
             /\ UNCHANGED monVars
        ELSE \E ok \in BOOLEAN :
               /\ MqttConnect(ok)
               /\ pc' = IF ok THEN "publish" ELSE "crashed"
               /\ cycle' = IF ok THEN NoFailure
                           ELSE [failure |-> "connect", logged |-> TRUE]
    /\ UNCHANGED <<boot_shutdown_time, last_shutdown_time, now, basic_config,
                   shutdown_threshold, config_changed, waiting_time, boots, survived,
                   config_file, capp, exit_code>>

\* What MQTT.publish (src/client.py lines 92-107) does with a message:
\*   "published"    is_published() holds, line 102
\*   "unpublished"  is_published() does not hold: an error is logged, line 104
\*   "error"        an exception of publish or wait_for_publish: it is logged and
\*                  exit(1) is called, lines 105-107
PublishResults == {"published", "unpublished", "error"}

\* The rest of run_with_time_measure (lines 183, 241-245): the publish, the end
\* time and the waiting time
RunEnd ==
    /\ pc = "publish"
    /\ \E elapsed \in 0..MaxElapsed, result \in PublishResults :
        /\ now + elapsed <= MaxClock
        /\ now' = now + elapsed
        /\ IF result = "error"
           THEN /\ pc' = "publish_failed"
                /\ exit_code' = Some(PublishErrorExit)
                /\ cycle' = [failure |-> "publish", logged |-> TRUE]
                /\ UNCHANGED waiting_time
           ELSE /\ pc' = "sched"
                /\ waiting_time' = WaitingTime(basic_config.period, start_time,
                                               now + elapsed)
                /\ cycle' = IF result = "published" THEN cycle
                            ELSE [failure |-> "unpublished", logged |-> TRUE]
                /\ UNCHANGED exit_code
    /\ UNCHANGED <<boot_shutdown_time, last_shutdown_time, basic_config,
                   shutdown_threshold, config_changed, start_time, entry_overhead,
                   ops, boots, survived, config_file, capp>>
    /\ UNCHANGED monVars

\* A faulty variant of lines 198-201: the timestamp is recorded but the shutdown
\* is not requested, and the cycle goes on to the decision of line 211
CalibrateNoShutdown(overhead, pending, t) ==
    IF overhead = None
    THEN [overhead |-> overhead, pending |-> Some(t), shutdown |-> FALSE, read |-> FALSE]
    ELSE IF pending # None
    THEN [overhead |-> Some(MeasuredOverhead(t, pending)), pending |-> None,
          shutdown |-> FALSE, read |-> TRUE]
    ELSE [overhead |-> overhead, pending |-> pending, shutdown |-> FALSE, read |-> FALSE]

\* Lines 198-209 of run_periodically, with t the clock read at line 200 or 205.
\* shutdown: System.shutdown() is called at line 201; read: the clock was read.
Calibrate(overhead, pending, t) ==
    IF overhead = None
    THEN [overhead |-> overhead, pending |-> Some(t), shutdown |-> TRUE, read |-> TRUE]
    ELSE IF pending # None
    THEN [overhead |-> Some(MeasuredOverhead(t, pending)), pending |-> None,
          shutdown |-> FALSE, read |-> TRUE]
    ELSE [overhead |-> overhead, pending |-> pending, shutdown |-> FALSE, read |-> FALSE]

\* A faulty variant of lines 221-222: the timestamp is recorded first and the wake
\* is scheduled last, right before the shutdown
ScheduledShutdownWakeLast(w, overhead, t1, t2) ==
    [pending |-> Some(t2), now |-> t2, pc |-> "sched_shutdown",
     ops |-> << <<"rtc", t1>>,
                <<"rtc", t2>>,
                <<"schedule_wakeup", t1 + ShutdownDuration(w, overhead)>> >>]

\* Lines 215-223: the scheduled-wake shutdown; t1 and t2 are the clock reads of
\* lines 215 and 222
ScheduledShutdown(w, overhead, t1, t2) ==
    [pending |-> Some(t2), now |-> t2, pc |-> "sched_shutdown",
     ops |-> << <<"rtc", t1>>,
                <<"schedule_wakeup", t1 + ShutdownDuration(w, overhead)>>,
                <<"rtc", t2>> >>]

\* A faulty variant of the sleep: the timestamp is recorded before idling too
SleepRecording(w, pending, t) ==
    [pending |-> Some(t), now |-> t + w, pc |-> "loop", ops |-> << <<"sleep", w>> >>]

\* time.sleep(waiting_time), lines 227 and 234
Sleep(w, pending, t) ==
    [pending |-> pending, now |-> t + w, pc |-> "loop", ops |-> << <<"sleep", w>> >>]

\* Lines 211-236 of run_periodically, entered at clock t; d1 and d2 are the time
\* that passes before the clock reads of lines 215 and 222
Decide(w, threshold, overhead, pending, changed, t, d1, d2) ==
    IF ThresholdExceeded(w, threshold, overhead)
    THEN IF WorthShutdown(w, overhead)
         THEN ScheduledShutdown(w, overhead, t + d1, t + d1 + d2)
         ELSE Sleep(w, pending, t)
    ELSE IF w > 0
    THEN IF changed
         THEN [pending |-> pending, now |-> t, pc |-> "exited",
               ops |-> << <<"is_config_changed", 1>>, <<"exit", ConfigChangeExit>> >>]
         ELSE [Sleep(w, pending, t) EXCEPT
                   !.ops = << <<"is_config_changed", 0>> >> \o @]
    ELSE [pending |-> pending, now |-> t, pc |-> "loop", ops |-> << <<"warning", 0>> >>]

\* run_periodically, lines 198-236: the calibrator's step and the decision of one
\* cycle, up to the shutdown request, the end of the sleep or the exit
Schedule ==
    /\ pc = "sched"
    /\ \E d0 \in 0..MaxDrift, d1 \in 0..MaxDrift, d2 \in 0..MaxDrift :
        LET t0 == now + d0
            c == Calibrate(boot_shutdown_time, last_shutdown_time, t0)
            r == IF c.shutdown
                 THEN [pending |-> c.pending, now |-> t0, pc |-> "first_shutdown",
                       ops |-> <<>>]
                 ELSE Decide(waiting_time, shutdown_threshold, c.overhead, c.pending,
                             config_changed, t0, d1, d2)
        IN  /\ r.now <= MaxClock
            /\ c.shutdown => d1 = 0 /\ d2 = 0
            /\ r.pc # "sched_shutdown" => d1 = 0 /\ d2 = 0
            /\ ~c.read => d0 = 0
            /\ boot_shutdown_time' = c.overhead
            /\ last_shutdown_time' = r.pending
            /\ entry_overhead' = IF c.shutdown THEN None ELSE c.overhead
            /\ now' = r.now
            /\ pc' = r.pc
            /\ exit_code' = IF r.pc = "exited" THEN Some(ConfigChangeExit) ELSE exit_code
            /\ ops' = (IF c.read THEN << <<"rtc", t0>> >> ELSE <<>>)
                       \o (IF c.read /\ ~c.shutdown
                           THEN << <<"measured", Val(c.overhead)>> >> ELSE <<>>)
                       \o r.ops
    /\ UNCHANGED <<basic_config, shutdown_threshold, config_changed, start_time,
                   waiting_time, boots, survived, config_file, capp, cycle>>
    /\ UNCHANGED monVars

ShutdownRequested == pc \in {"gate_shutdown", "first_shutdown", "sched_shutdown"}

\* System.shutdown() (called at lines 109, 114, 201, 223): the device powers off and
\* the call does not return
SystemShutdown ==
    /\ ShutdownRequested
    /\ pc' = "off"
    /\ ops' = Append(ops, <<"shutdown", 0>>)
    /\ survived' = last_shutdown_time
    /\ UNCHANGED <<boot_shutdown_time, last_shutdown_time, now, basic_config,
                   shutdown_threshold, config_changed, start_time, waiting_time,
                   entry_overhead,
                   boots, config_file, capp, exit_code, cycle>>
    /\ UNCHANGED monVars

\* The device is woken (by the scheduled wake or from outside), the process starts
\* and App.__init__ (lines 42-47) runs, MQTT.__init__ (src/client.py lines 35-41)
\* with it
PowerOn ==
    /\ pc = "off"
    /\ boots < MaxBoots
    /\ \E d \in 1..MaxBootTime :
        /\ now + d <= MaxClock
        /\ now' = now + d
    /\ boots' = boots + 1
    /\ pc' = "start"
    /\ boot_shutdown_time' = None
    /\ last_shutdown_time' = None
    /\ config_changed' = FALSE
    /\ start_time' = 0
    /\ waiting_time' = 0
    /\ entry_overhead' = None
    /\ ops' = <<>>
    /\ client' = "none"
    /\ reconnect_counter' = 0
    /\ hpc' = "idle"
    /\ reboots' = 0
    /\ streak' = 0
    /\ attempts' = 0
    /\ waits' = 0
    /\ replaced' = <<>>
    /\ exit_code' = None
    /\ cycle' = NoFailure
    /\ UNCHANGED <<basic_config, shutdown_threshold, survived, config_file, capp>>

ProcessRuns == pc \in {"start", "loop", "publish", "sched"}

\* MQTT.init_receive.on_message (src/client.py lines 44-50): a new configuration
\* arrives and is written to the configuration file
ConfigDelivered ==
    /\ ProcessRuns
    /\ ~config_changed
    /\ config_changed' = TRUE
    /\ UNCHANGED <<pc, boot_shutdown_time, last_shutdown_time, now, basic_config,
                   shutdown_threshold, start_time, waiting_time, entry_overhead, ops,
                   boots,
                   survived, config_file, capp, exit_code, cycle>>
    /\ UNCHANGED monVars

NextSched ==
    \/ AppStart
    \/ RunBegin
    \/ RunEnd
    \/ Schedule
    \/ SystemShutdown
    \/ PowerOn
    \/ ConfigDelivered

\* The program from its construction
Spec == Init /\ [][NextSched]_vars

\* The values of the two calibration fields
Overheads == {None} \cup {Some(v) : v \in 0..MaxOverhead}
Timestamps == {None} \cup {Some(t) : t \in 0..MaxStart}

\* The scheduler entered with the calibration fields holding the values in
\* calibrations (pairs of boot_shutdown_time and last_shutdown_time), as when they
\* are the ones an earlier run of the process left
InitWith(calibrations) ==
    /\ pc = "start"
    /\ now \in 0..MaxStart
    /\ \E c \in calibrations :
        /\ boot_shutdown_time = c[1]
        /\ last_shutdown_time = c[2]
    /\ basic_config \in HourConfigs
    /\ shutdown_threshold \in 0..MaxThreshold
    /\ config_changed = FALSE
    /\ start_time = 0
    /\ waiting_time = 0
    /\ entry_overhead = None
    /\ ops = <<>>
    /\ boots = 0
    /\ survived = None
    /\ ConfigLoaded
    /\ MonInit

\* Any values of the two fields
InitSched == InitWith(Overheads \X Timestamps)

SpecSched == InitSched /\ [][NextSched]_vars

\* The fields in one of the calibrator's three states: uncalibrated, awaiting the
\* measurement, calibrated
InitCal == InitWith({c \in Overheads \X Timestamps : c[1] = None \/ c[2] = None})

SpecCal == InitCal /\ [][NextSched]_vars

\* The gate alone, over every time of day and every window
InitGate ==
    /\ pc = "start"
    /\ boot_shutdown_time = None
    /\ last_shutdown_time = None
    /\ now \in 0..(DayLen - 1)
    /\ basic_config \in {c \in Configs : c.period = 1}
    /\ shutdown_threshold = 0
    /\ config_changed = FALSE
    /\ start_time = 0
    /\ waiting_time = 0
    /\ entry_overhead = None
    /\ ops = <<>>
    /\ boots = 0
    /\ survived = None
    /\ ConfigLoaded
    /\ MonInit

NextGate == AppStart \/ SystemShutdown

SpecGate == InitGate /\ [][NextGate]_vars

----------------------------------------------------------------------------
(* The loading of the configuration: App.load_config *)

\* The keys of the "Basic" section the scheduler reads
BasicKeys == {"period", "wake_up_time", "shut_down_time"}

\* default_config["Basic"], lines 53-60, at the scale of the model's day
DefaultBasic == [period |-> 2, wake_up_time |-> <<0, 1, 1>>, shut_down_time |-> <<1, 0, 0>>]

\* deep_merge, lines 16-38, of two dictionaries whose values are not dictionaries:
\* the keys of default, with the values of update for the keys both have
deep_merge(default, update) ==
    [k \in DOMAIN default |-> IF k \in DOMAIN update THEN update[k] ELSE default[k]]

\* The time strings a configuration file may hold
FileTimes == HourTimes \cup {Malformed}

\* The "Basic" sections a configuration file may hold: any of the keys may be
\* missing (the whole section too), the time strings may be malformed
BasicSections ==
    {[k \in K |-> f[k]] :
        f \in [period : {1}, wake_up_time : FileTimes, shut_down_time : FileTimes],
        K \in SUBSET BasicKeys}

\* The configuration files: missing, not JSON, JSON that is not an object, or an
\* object with a "Basic" section
ConfigFiles ==
    {[status |-> st, basic |-> <<>>] : st \in {"not_found", "invalid_json", "not_a_dict"}}
        \cup {[status |-> "ok", basic |-> b] : b \in BasicSections}

\* App.load_config, lines 50-82: exit(1) on an unreadable file, the merge with the
\* defaults otherwise
load_config(file) ==
    IF file.status # "ok"
    THEN [exit |-> TRUE, basic_config |-> DefaultBasic]
    ELSE [exit |-> FALSE, basic_config |-> deep_merge(DefaultBasic, file.basic)]

\* App.__init__, lines 42-47, with the load of the configuration file
AppInit ==
    /\ pc = "new"
    /\ LET r == load_config(config_file)
       IN  IF r.exit
           THEN /\ pc' = "load_failed"
                /\ exit_code' = Some(LoadErrorExit)
                /\ UNCHANGED basic_config
           ELSE /\ pc' = "start"
                /\ basic_config' = r.basic_config
                /\ UNCHANGED exit_code
    /\ boot_shutdown_time' = None
    /\ last_shutdown_time' = None
    /\ UNCHANGED <<now, shutdown_threshold, config_changed, start_time, waiting_time,
                   entry_overhead, ops, boots, survived, config_file, capp, cycle>>
    /\ UNCHANGED monVars

\* The process is started: App(config_path) is about to be constructed
InitLoad ==
    /\ pc = "new"
    /\ boot_shutdown_time = None
    /\ last_shutdown_time = None
    /\ now \in 0..MaxStart
    /\ config_file \in ConfigFiles
    /\ basic_config = DefaultBasic
    /\ shutdown_threshold \in 0..MaxThreshold
    /\ config_changed = FALSE
    /\ start_time = 0
    /\ waiting_time = 0
    /\ entry_overhead = None
    /\ ops = <<>>
    /\ boots = 0
    /\ survived = None
    /\ exit_code = None
    /\ cycle = NoFailure
    /\ capp = NoClientApp
    /\ MonInit

NextLoad ==
    \/ AppInit
    \/ AppStart
    \/ RunBegin
    \/ RunEnd
    \/ Schedule
    \/ SystemShutdown
    \/ PowerOn
    \/ ConfigDelivered

\* The program from the start of the process
SpecLoad == InitLoad /\ [][NextLoad]_vars

----------------------------------------------------------------------------
(* The script of src/client.py: class App (lines 151-224), and the calls that    *)
(* src/tests/clientTest.py makes on it                                           *)

\* The exit code of create_message on an error, line 190
MessageErrorExit == 1

\* What class App of src/client.py defines, lines 152-198
ClientAppMethods == {"__init__", "load_camera_config", "create_message", "resize_image", "run"}

\* The configuration files load_camera_config (lines 158-171) may find; it returns
\* the "Camera" section of a readable one and raises otherwise
ClientFiles == {"ok", "not_found", "invalid_json", "no_camera"}

\* The variables of the scheduler of src/app.py, which the script does not touch
appVars ==
    <<pc, boot_shutdown_time, last_shutdown_time, basic_config, shutdown_threshold,
      config_changed, start_time, waiting_time, entry_overhead, ops, boots, survived,
      config_file, exit_code, cycle>>

\* App(config_path), lines 152-155
ClientConstruct ==
    /\ capp.pc = "new"
    /\ capp' = [capp EXCEPT !.pc = IF capp.file = "ok" THEN "constructed"
                                   ELSE "construct_failed"]
    /\ UNCHANGED <<appVars, now>>
    /\ UNCHANGED monVars

\* app.<method>(...) on the constructed object: the attribute is looked up in the
\* class and AttributeError is raised when the class does not define it; run
\* (lines 198-206) starts the camera, connects and sets the end time
ClientCall(method) ==
    /\ capp.pc = "constructed"
    /\ IF method \notin ClientAppMethods
       THEN /\ capp' = [capp EXCEPT !.pc = "attribute_error", !.called = method]
            /\ UNCHANGED monVars
       ELSE \E ok \in BOOLEAN, duration \in 1..MaxPeriod :
               /\ MqttConnect(ok)
               /\ capp' = [capp EXCEPT !.pc = IF ok THEN "running" ELSE "crashed",
                                       !.called = method,
                                       !.end_time = now + duration]
    /\ UNCHANGED <<appVars, now>>

\* One turn of the loop of run, lines 207-222: capture, create_message (exit(1) on
\* an error, line 190), publish (exit(1) on an error, line 107)
ClientRunCycle ==
    /\ capp.pc = "running"
    /\ now < capp.end_time
    /\ \E d \in 1..MaxElapsed, captured \in BOOLEAN, made \in BOOLEAN,
          result \in PublishResults :
        /\ now + d <= MaxClock
        /\ now' = now + d
        /\ capp' =
              IF ~captured
              THEN [capp EXCEPT !.pc = "crashed"]
              ELSE IF ~made
              THEN [capp EXCEPT !.pc = "exited", !.exits = Append(@, MessageErrorExit),
                                !.infos = @ \cup {"Image captured"}]
              ELSE IF result = "error"
              THEN [capp EXCEPT !.pc = "exited", !.exits = Append(@, PublishErrorExit),
                                !.infos = @ \cup {"Image captured"}]
              ELSE [capp EXCEPT !.infos = @ \cup {"Image captured"}]
    /\ UNCHANGED appVars
    /\ UNCHANGED monVars

\* The end of run, line 224: MQTT.disconnect (lines 109-112)
ClientRunEnd ==
    /\ capp.pc = "running"
    /\ now >= capp.end_time
    /\ capp' = [capp EXCEPT !.pc = "done"]
    /\ client' = "closed"
    /\ UNCHANGED <<reconnect_counter, hpc, reboots, streak, attempts, waits,
                   replaced>>
    /\ UNCHANGED <<appVars, now>>

\* The script is started, or the test is: a configuration file, the outcome of
\* the mocked mount command, no App object yet
InitClient ==
    /\ pc = "none"
    /\ boot_shutdown_time = None
    /\ last_shutdown_time = None
    /\ now \in 0..MaxStart
    /\ basic_config = DefaultBasic
    /\ shutdown_threshold = 0
    /\ config_changed = FALSE
    /\ start_time = 0
    /\ waiting_time = 0
    /\ entry_overhead = None
    /\ ops = <<>>
    /\ boots = 0
    /\ survived = None
    /\ config_file = [status |-> "ok", basic |-> DefaultBasic]
    /\ exit_code = None
    /\ cycle = NoFailure
    /\ \E file \in ClientFiles, mock_ok \in BOOLEAN :
          capp = [NoClientApp EXCEPT !.pc = "new", !.file = file, !.mock_ok = mock_ok]
    /\ MonInit

NextClient ==
    \/ ClientConstruct
    \/ \E method \in {"run", "mount_nfs"} : ClientCall(method)
    \/ ClientRunCycle
    \/ ClientRunEnd

SpecClient == InitClient /\ [][NextClient]_vars

----------------------------------------------------------------------------
(* The connection health monitor: src/client.py, class MQTT *)

\* The values of client:
\*   "none"        no client yet (MQTT.__init__, line 40)
\*   "connecting"  client.connect() returned, the broker's answer is awaited
\*   "up"          connected
\*   "lost"        the link went down, the disconnect callback is due
\*   "down"        the link is down and nothing is due: no callback, no attempt
\*   "closed"      disconnected by MQTT.disconnect()
\* The values of hpc, the network thread that runs the callbacks:
\*   "idle", "backoff" (in the time.sleep(2) of line 75), "dead" (ended by an
\*   exception or by exit(2))

\* The process exists: it has not been powered off and has not exited
ProcessAlive == pc \notin {"off", "exited", "crashed", "publish_failed", "load_failed"}

\* A faulty variant of the match statement: the reboot comes one disconnect early
HandlerCaseEarly(counter) ==
    IF counter = 0 THEN "connect"
    ELSE IF counter \in 1..3 THEN "backoff"
    ELSE IF counter = 4 THEN "reboot"
    ELSE "none"

\* A faulty variant of the match statement: the case of 5 is missing, the counter
\* goes on counting
HandlerCaseNoReboot(counter) ==
    IF counter = 0 THEN "connect"
    ELSE IF counter \in 1..4 THEN "backoff"
    ELSE "none"

\* A faulty variant of the match statement: the first disconnect waits the backoff
\* interval too
HandlerCaseBackoffAtZero(counter) ==
    IF counter \in 0..4 THEN "backoff"
    ELSE IF counter = 5 THEN "reboot"
    ELSE "none"

\* The match statement of on_disconnect, lines 71-79
HandlerCase(counter) ==
    IF counter = 0 THEN "connect"
    ELSE IF counter \in 1..4 THEN "backoff"
    ELSE IF counter = 5 THEN "reboot"
    ELSE "none"

\* on_connect, lines 56-62, called with the broker's answer rc; rc = 0 is success,
\* a refusal ends the connection and the client reports it as a disconnect
OnConnect ==
    /\ ProcessAlive
    /\ client = "connecting"
    /\ hpc = "idle"
    /\ \E rc \in 0..1 :
        IF rc = 0
        THEN /\ reconnect_counter' = 0
             /\ client' = "up"
             /\ streak' = 0
             /\ attempts' = 0
             /\ waits' = 0
        ELSE /\ client' = "lost"
             /\ UNCHANGED <<reconnect_counter, streak, attempts, waits>>
    /\ UNCHANGED <<hpc, reboots, replaced>>
    /\ UNCHANGED schedVars

\* The link goes down without the device asking for it
LinkLost ==
    /\ ProcessAlive
    /\ client \in {"up", "connecting"}
    /\ client' = "lost"
    /\ UNCHANGED <<reconnect_counter, hpc, reboots, streak, attempts, waits,
                   replaced>>
    /\ UNCHANGED schedVars

\* self.client.connect(self.broker, self.port) in the handler, lines 73 and 76,
\* and the increment of line 81, which an exception of connect() skips
HandlerConnect(ok) ==
    /\ attempts' = attempts + 1
    /\ IF ok
       THEN /\ client' = "connecting"
            /\ reconnect_counter' = reconnect_counter + 1
            /\ hpc' = "idle"
       ELSE /\ client' = "down"
            /\ reconnect_counter' = reconnect_counter
            /\ hpc' = "dead"

\* on_disconnect with a reason code other than 0, lines 64-81, up to the sleep of
\* line 75
OnDisconnect ==
    /\ ProcessAlive
    /\ client = "lost"
    /\ hpc = "idle"
    /\ streak' = streak + 1
    /\ \E ok \in BOOLEAN :
        LET case == HandlerCase(reconnect_counter)
        IN  IF case = "connect"
            THEN HandlerConnect(ok) /\ UNCHANGED <<reboots, waits>>
            ELSE IF case = "backoff"
            THEN /\ hpc' = "backoff"
                 /\ waits' = waits + 1
                 /\ ok
                 /\ UNCHANGED <<client, reconnect_counter, reboots, attempts>>
            ELSE IF case = "reboot"
            THEN /\ reboots' = reboots + 1
                 /\ hpc' = "dead"
                 /\ client' = "down"
                 /\ ok
                 /\ UNCHANGED <<reconnect_counter, attempts, waits>>
            ELSE /\ reconnect_counter' = reconnect_counter + 1
                 /\ client' = "down"
                 /\ ok
                 /\ UNCHANGED <<hpc, reboots, attempts, waits>>
    /\ UNCHANGED replaced
    /\ UNCHANGED schedVars

\* on_disconnect after the sleep of line 75: lines 76 and 81
BackoffDone ==
    /\ ProcessAlive
    /\ hpc = "backoff"
    /\ \E ok \in BOOLEAN : HandlerConnect(ok)
    /\ UNCHANGED <<reboots, streak, waits, replaced>>
    /\ UNCHANGED schedVars

\* A faulty variant of the handler: the return of line 67 is missing, so reason
\* code 0 is handled as a failure: an attempt is made and the counter goes up
VoluntaryDisconnectNoReturn ==
    /\ ProcessAlive
    /\ client \in {"up", "connecting"}
    /\ hpc = "idle"
    /\ client' = "closed"
    /\ attempts' = attempts + 1
    /\ reconnect_counter' = IF reconnect_counter < 5 THEN reconnect_counter + 1
                            ELSE reconnect_counter
    /\ UNCHANGED <<hpc, reboots, streak, waits, replaced>>
    /\ UNCHANGED schedVars

\* MQTT.disconnect, lines 109-112, and on_disconnect with reason code 0, lines
\* 65-67.  loop_stop() (line 111) joins the network thread, so a handler in
\* progress there ends first; client.disconnect() (line 112) then closes the
\* link, answered or not, and the callback gets reason code 0: it logs and
\* returns.  With no link there is nothing to close and no callback
VoluntaryDisconnect ==
    /\ ProcessAlive
    /\ client \in {"up", "connecting"}
    /\ hpc = "idle"
    /\ client' = "closed"
    /\ UNCHANGED <<reconnect_counter, hpc, reboots, streak, attempts, waits,
                   replaced>>
    /\ UNCHANGED schedVars

NextMon ==
    \/ OnConnect
    \/ LinkLost
    \/ OnDisconnect
    \/ BackoffDone
    \/ VoluntaryDisconnect

\* The program from its construction, with the window always open
InitMon ==
    /\ Init
    /\ now = 0
    /\ shutdown_threshold = 0
    /\ basic_config = [period |-> 1, wake_up_time |-> <<0, 0, 0>>,
                       shut_down_time |-> <<0, 0, 0>>]

\* The whole program, scheduler and monitor, under one configuration
NextProgram == NextSched \/ NextMon

SpecMon == InitMon /\ [][NextProgram]_vars

\* Every callback that is due is run, every sleep ends and every connection
\* attempt gets its answer: the delivery of the client's events is fair
MonFairness ==
    /\ WF_vars(OnDisconnect)
    /\ WF_vars(BackoffDone)
    /\ WF_vars(OnConnect)

SpecMonFair == SpecMon /\ MonFairness

\* seq without its i-th element
Without(seq, i) == SubSeq(seq, 1, i - 1) \o SubSeq(seq, i + 1, Len(seq))

\* on_disconnect after the sleep of line 75, in the thread of a replaced client:
\* line 76 calls connect() on self.client, which is the client MQTT.connect made
\* since (line 83), whatever the state of its link; an exception of connect()
\* ends the thread.  A link closed by MQTT.disconnect has no network thread any
\* more (line 111), so nothing comes of a connection made on it
ReplacedBackoffDone ==
    /\ ProcessAlive
    /\ \E i \in DOMAIN replaced :
        /\ replaced[i] = "backoff"
        /\ \E ok \in BOOLEAN :
            /\ attempts' = attempts + 1
            /\ client' = IF client = "closed" THEN "closed"
                         ELSE IF ok THEN "connecting" ELSE "down"
            /\ replaced' = IF ok THEN [replaced EXCEPT ![i] = "connected"]
                           ELSE Without(replaced, i)
    /\ UNCHANGED <<reconnect_counter, hpc, reboots, streak, waits>>
    /\ UNCHANGED schedVars

\* Line 81 in the thread of a replaced client: the increment, which the
\* callbacks of the new client's thread can precede
ReplacedIncrement ==
    /\ ProcessAlive
    /\ \E i \in DOMAIN replaced :
        /\ replaced[i] = "connected"
        /\ replaced' = Without(replaced, i)
    /\ reconnect_counter' = reconnect_counter + 1
    /\ UNCHANGED <<client, hpc, reboots, streak, attempts, waits>>
    /\ UNCHANGED schedVars

\* The scheduler entered with the overhead known, so that its cycles follow one
\* another in one process, under one configuration, with the monitor
InitConc ==
    /\ pc = "start"
    /\ boot_shutdown_time = Some(0)
    /\ last_shutdown_time = None
    /\ now = MaxClock - MaxConcTime
    /\ config_changed = FALSE
    /\ start_time = 0
    /\ waiting_time = 0
    /\ entry_overhead = None
    /\ ops = <<>>
    /\ boots = 0
    /\ survived = None
    /\ shutdown_threshold = 0
    /\ basic_config = [period |-> 1, wake_up_time |-> <<0, 0, 0>>,
                       shut_down_time |-> <<0, 0, 0>>]
    /\ ConfigLoaded
    /\ MonInit

NextConc == NextProgram \/ ReplacedBackoffDone \/ ReplacedIncrement

SpecConc == InitConc /\ [][NextConc]_vars

----------------------------------------------------------------------------
(* What the claims speak of *)

Has(op) == \E i \in DOMAIN ops : ops[i][1] = op

\* The calibrator's step and the decision of the current cycle have been taken
CycleDecided == ops # <<>> /\ ops[1][1] # "working_time_check"

\* The cycle measured the overhead (lines 205-209) before its decision
MeasuredThisCycle == Len(ops) >= 2 /\ ops[2][1] = "measured"

\* What the decision of lines 211-236 did this cycle
DecisionOps == IF MeasuredThisCycle THEN SubSeq(ops, 3, Len(ops)) ELSE ops

OverheadKnown == entry_overhead # None

BothSet == boot_shutdown_time # None /\ last_shutdown_time # None

\* The time of day of timestamp t in seconds since midnight, and a configured time
SecondOfDay(t) == t % DayLen
Seconds(tod) == (tod[1] * (MaxMinute + 1) + tod[2]) * (MaxSecond + 1) + tod[3]

----------------------------------------------------------------------------
(* C1: no wake is scheduled and no shutdown is requested in a cycle whose        *)
(* shutdown_duration = waiting_time - boot_shutdown_overhead is <= 0; when the   *)
(* waiting time exceeds the threshold, the overhead is known and the duration is *)
(* <= 0, the decision is a sleep of exactly waiting_time and nothing else.       *)
C1_NoShutdownWithoutPayoff ==
    (OverheadKnown /\ waiting_time - Val(entry_overhead) <= 0) =>
        /\ ~Has("schedule_wakeup")
        /\ ~Has("shutdown")
        /\ ~ShutdownRequested
        /\ waiting_time > shutdown_threshold =>
              DecisionOps = << <<"sleep", waiting_time>> >> /\ pc = "loop"

C1_Witness ==
    /\ OverheadKnown
    /\ waiting_time > shutdown_threshold
    /\ waiting_time - Val(entry_overhead) <= 0
    /\ DecisionOps = << <<"sleep", waiting_time>> >>

(* C2 as claimed: once 5 involuntary disconnects in a row have been handled with *)
(* no success in between, a reboot has been requested, exactly once; a success   *)
(* puts the counter back to 0.                                                   *)
C2_RebootAfterFiveDisconnects ==
    /\ streak = 5 => reboots = 1
    /\ reboots <= 1
    /\ client = "up" => reconnect_counter = 0 /\ streak = 0

(* C2, amended: the reboot is requested, exactly once, by the handling of the    *)
(* 6th involuntary disconnect in a row, the one that finds the counter at 5;     *)
(* after 5 of them the counter is 5 and no reboot has been requested; a success  *)
(* puts the counter back to 0 and the count starts over.                         *)
C2_RebootAfterSixDisconnects ==
    /\ streak <= 6
    /\ streak = 6 => reboots = 1 /\ reconnect_counter = 5
    /\ streak <= 5 => reboots = 0
    /\ (streak = 5 /\ hpc = "idle") => reconnect_counter = 5
    /\ client = "up" => reconnect_counter = 0 /\ streak = 0

C2_Witness == streak = 6 /\ reboots = 1 /\ attempts = 5

C4_CalibratedAfterTwoBoots ==
    (boots >= 1 /\ survived # None /\ CycleDecided) =>
        /\ OverheadKnown
        /\ MeasuredThisCycle
        /\ ops[2][2] = ops[1][2] - Val(survived)

(* C5: every shutdown request of the process is preceded by the recording of     *)
(* pending_shutdown_timestamp, the last clock read before the call; a timestamp  *)
(* an overhead was derived from is cleared.                                      *)
C5_EveryShutdownRecordsTimestamp ==
    /\ ShutdownRequested =>
          /\ last_shutdown_time # None
          /\ CycleDecided
          /\ ops[Len(ops)] = <<"rtc", Val(last_shutdown_time)>>
    /\ (MeasuredThisCycle /\ pc \in {"loop", "exited"}) => last_shutdown_time = None

(* C6: there is no state of the running process, after an involuntary           *)
(* disconnect, in which the link is down, no reconnect attempt is pending and no *)
(* reboot has been requested; and once the link is lost the monitor comes to a   *)
(* connection or to a reboot request (unless the process ends first).            *)
C6_ConvergesOrReboots ==
    /\ [](~(ProcessAlive /\ streak > 0 /\ client = "down" /\ reboots = 0))
    /\ (client = "lost") ~> (client = "up" \/ reboots > 0 \/ ~ProcessAlive)

(* C7: at the end of every cycle a pending configuration change makes the        *)
(* scheduler exit the loop, whatever the waiting time and the calibration state. *)
C7_PendingChangeAlwaysExits ==
    [][(pc = "sched" /\ pc' # "sched" /\ config_changed) => pc' = "exited"]_vars

(* C8: the gate requests a power-off exactly when the time of day is outside the *)
(* window: for wake_up_time < shut_down_time iff now < wake_up_time or           *)
(* now >= shut_down_time, otherwise iff shut_down_time <= now < wake_up_time.    *)
C8_GateShutsDownExactlyOutsideWindow ==
    (ops # <<>> /\ ops[1][1] = "working_time_check" /\ pc # "off") =>
        LET c == SecondOfDay(ops[1][2])
            w == Seconds(basic_config.wake_up_time)
            s == Seconds(basic_config.shut_down_time)
        IN  (pc = "gate_shutdown") <=>
                IF w < s THEN c < w \/ c >= s ELSE s <= c /\ c < w

C8_Witness ==
    /\ pc = "loop"
    /\ ops # <<>> /\ ops[1][1] = "working_time_check"
    /\ Seconds(basic_config.wake_up_time) > Seconds(basic_config.shut_down_time)
    /\ SecondOfDay(ops[1][2]) > Seconds(basic_config.wake_up_time)
    /\ basic_config.wake_up_time[3] # 0

(* C9: when the waiting time exceeds the threshold, the overhead is known and    *)
(* shutdown_duration = waiting_time - overhead is > 0, the decision reads the    *)
(* clock, schedules the wake at that time plus shutdown_duration, reads the      *)
(* clock again and records it as the pending timestamp, and requests the         *)
(* shutdown; it does not sleep.                                                  *)
C9_ScheduledWakeShutdown ==
    (OverheadKnown /\ waiting_time > shutdown_threshold
       /\ waiting_time - Val(entry_overhead) > 0) =>
        /\ pc \in {"sched_shutdown", "off"}
        /\ Len(DecisionOps) >= 3
        /\ DecisionOps[1][1] = "rtc"
        /\ DecisionOps[2] = <<"schedule_wakeup",
                              DecisionOps[1][2] + waiting_time - Val(entry_overhead)>>
        /\ DecisionOps[3] = <<"rtc", Val(last_shutdown_time)>>
        /\ pc = "sched_shutdown" => Len(DecisionOps) = 3
        /\ pc = "off" => DecisionOps[4] = <<"shutdown", 0>> /\ Len(DecisionOps) = 4
        /\ ~Has("sleep")

C9_Witness ==
    /\ OverheadKnown
    /\ Val(entry_overhead) > 0
    /\ waiting_time > shutdown_threshold
    /\ waiting_time - Val(entry_overhead) > 0
    /\ pc = "off"
    /\ Has("schedule_wakeup")

(* C10 as claimed: in every cycle whose waiting time does not exceed the         *)
(* threshold no shutdown and no wake is requested; with 0 < waiting_time and no  *)
(* change pending the cycle sleeps waiting_time; with waiting_time = 0 it warns. *)
C10_NoShutdownBelowThreshold ==
    (CycleDecided /\ waiting_time <= shutdown_threshold) =>
        /\ ~ShutdownRequested /\ ~Has("shutdown") /\ ~Has("schedule_wakeup")
        /\ (waiting_time > 0 /\ ~config_changed) =>
              DecisionOps = << <<"is_config_changed", 0>>, <<"sleep", waiting_time>> >>
        /\ waiting_time = 0 => DecisionOps = << <<"warning", 0>> >> /\ pc = "loop"

(* C10, amended: the same of every cycle whose waiting time does not exceed the  *)
(* threshold and in which the overhead is known.                                 *)
C10_NoShutdownBelowThresholdCalibrated ==
    (CycleDecided /\ OverheadKnown /\ waiting_time <= shutdown_threshold) =>
        /\ ~ShutdownRequested /\ ~Has("shutdown") /\ ~Has("schedule_wakeup")
        /\ (waiting_time > 0 /\ ~config_changed) =>
              /\ DecisionOps = << <<"is_config_changed", 0>>, <<"sleep", waiting_time>> >>
              /\ pc = "loop"
        /\ waiting_time = 0 => DecisionOps = << <<"warning", 0>> >> /\ pc = "loop"

C10_Witness ==
    /\ CycleDecided /\ OverheadKnown
    /\ waiting_time = shutdown_threshold
    /\ waiting_time > 0
    /\ DecisionOps = << <<"is_config_changed", 0>>, <<"sleep", waiting_time>> >>

(* C11: the waiting time a cycle returns is max(period - elapsed, 0), elapsed    *)
(* being the RTC read after the run minus the RTC read before it (start_time);   *)
(* it is never negative.                                                         *)
C11_WaitingTimeClamped ==
    pc = "sched" =>
        LET elapsed == now - start_time
        IN  /\ elapsed >= 0
            /\ waiting_time >= 0
            /\ waiting_time = IF basic_config.period - elapsed >= 0
                              THEN basic_config.period - elapsed ELSE 0

C11_Witness ==
    /\ pc = "sched"
    /\ now - start_time > basic_config.period
    /\ waiting_time = 0

C18_BootAStep ==
    (CycleDecided /\ ~OverheadKnown) =>
        /\ pc \in {"first_shutdown", "off"}
        /\ ops[1] = <<"rtc", now>>
        /\ last_shutdown_time = Some(now)
        /\ boot_shutdown_time = None
        /\ pc = "first_shutdown" => Len(ops) = 1
        /\ pc = "off" => ops = << <<"rtc", now>>, <<"shutdown", 0>> >>
        /\ ~Has("schedule_wakeup") /\ ~Has("sleep")
        /\ ~Has("is_config_changed") /\ ~Has("warning")

C18_Witness ==
    /\ pc = "first_shutdown"
    /\ ~OverheadKnown
    /\ waiting_time > shutdown_threshold
    /\ config_changed
    /\ last_shutdown_time = Some(now)

\* The place of the first op record in ops (0 when there is none)
IndexOf(op) ==
    IF Has(op) THEN CHOOSE i \in DOMAIN ops : ops[i][1] = op /\ \A j \in 1..(i - 1) : ops[j][1] # op
    ELSE 0

(* C19: a wake is scheduled only in a cycle that goes on to request the          *)
(* shutdown, once, and before the request; between the two there is only the     *)
(* clock read that is recorded as the pending timestamp.                         *)
C19_WakeBeforeShutdown ==
    Has("schedule_wakeup") =>
        LET i == IndexOf("schedule_wakeup")
        IN  /\ pc \in {"sched_shutdown", "off"}
            /\ \A j \in DOMAIN ops : ops[j][1] = "schedule_wakeup" => j = i
            /\ Len(ops) >= i + 1
            /\ ops[i + 1] = <<"rtc", Val(last_shutdown_time)>>
            /\ Has("shutdown") => IndexOf("shutdown") = i + 2 /\ Len(ops) = i + 2
            /\ ~Has("shutdown") => pc = "sched_shutdown" /\ Len(ops) = i + 1

C19_Witness ==
    /\ pc = "off"
    /\ MeasuredThisCycle
    /\ Has("schedule_wakeup")
    /\ IndexOf("shutdown") = IndexOf("schedule_wakeup") + 2

(* C20: reconnect_counter is always within 0..5; it changes only by going up by  *)
(* 1 when the handling of an involuntary disconnect ends in a reconnect attempt  *)
(* (no reboot requested), or by being set to 0 by on_connect with rc = 0 (or by  *)
(* MQTT.__init__ in a new process); everything else leaves it as it is.          *)
C20_CounterInvariant ==
    /\ [](reconnect_counter \in 0..5)
    /\ [][reconnect_counter' # reconnect_counter =>
            \/ /\ reconnect_counter' = reconnect_counter + 1
               /\ streak' >= 1
               /\ attempts' = attempts + 1
               /\ client' = "connecting"
               /\ reboots' = reboots
            \/ /\ reconnect_counter' = 0
               /\ client = "connecting"
               /\ client' = "up"
            \/ /\ reconnect_counter' = 0
               /\ pc = "off"
               /\ pc' = "start"]_vars

C20_Witness ==
    /\ reconnect_counter = 5
    /\ reboots = 1
    /\ streak = 6

(* C15: the exit code of the exit on a detected configuration change differs    *)
(* from the code of every failure exit (configuration load error, publish        *)
(* error) and from the code of the reboot escalation.                            *)
C15_ConfigChangeExitDistinct ==
    /\ pc \in {"load_failed", "publish_failed"} => exit_code # Some(ConfigChangeExit)
    /\ pc = "exited" =>
          /\ exit_code # Some(LoadErrorExit)
          /\ exit_code # Some(PublishErrorExit)
          /\ exit_code # Some(RebootExit)

(* C16: when the capture-and-publish run of a cycle fails, the failure is logged *)
(* and only that cycle is given up: the process neither exits nor is left by an  *)
(* exception, and the scheduler goes on to the decision and the next cycle.      *)
C16_FailureAbortsOnlyTheCycle ==
    cycle.failure # "none" =>
        /\ cycle.logged
        /\ pc \notin {"crashed", "publish_failed"}

\* The file holds a configuration error: a key is missing or a time string is
\* malformed
HasConfigError(file) ==
    /\ file.status = "ok"
    /\ \/ BasicKeys \ DOMAIN file.basic # {}
       \/ \E k \in DOMAIN file.basic \cap {"wake_up_time", "shut_down_time"} :
             ~WellFormed(file.basic[k])

(* C17: a configuration with a malformed time string or with a missing key makes *)
(* the process exit while the configuration is loaded; no configuration error    *)
(* surfaces later, in the evaluation of the gate.                                *)
C17_ConfigErrorsFatalAtLoad ==
    /\ (pc # "new" /\ HasConfigError(config_file)) => pc = "load_failed"
    /\ ~(pc = "crashed" /\ ops # <<>> /\ ops[1][1] = "working_time_check")

(* C12: App.mount_nfs, as the tests call it, runs the mount command exactly      *)
(* once; when the command succeeds it logs "Mount successful." and nothing at    *)
(* critical level; when it fails it logs at critical level, calls exit(1)        *)
(* exactly once and does not log the success.                                    *)
C12_MountNfsAsTested ==
    capp.called = "mount_nfs" =>
        /\ capp.mount_runs = 1
        /\ capp.mock_ok =>
              "Mount successful." \in capp.infos /\ capp.criticals = {}
        /\ ~capp.mock_ok =>
              /\ capp.criticals # {}
              /\ capp.exits = <<1>>
              /\ "Mount successful." \notin capp.infos

(* C21: within one run of consecutive involuntary disconnects, the disconnect    *)
(* handled at counter 0 reconnects at once with no wait; each disconnect handled  *)
(* at counter 1..4 waits one backoff interval and then reconnects exactly once;   *)
(* the disconnect handled at counter 5 makes no attempt and no wait and requests  *)
(* the reboot; so at most 5 attempts and 4 waits lie between a connected state    *)
(* and a reboot.                                                                  *)
C21_RetryLadder ==
    /\ [](attempts <= 5 /\ waits <= 4)
    /\ [][streak' = streak + 1 =>
            \/ /\ reconnect_counter = 0
               /\ attempts' = attempts + 1
               /\ waits' = waits
               /\ reboots' = reboots
               /\ hpc' # "backoff"
            \/ /\ reconnect_counter \in 1..4
               /\ hpc' = "backoff"
               /\ waits' = waits + 1
               /\ attempts' = attempts
               /\ reboots' = reboots
            \/ /\ reconnect_counter = 5
               /\ attempts' = attempts
               /\ waits' = waits
               /\ reboots' = reboots + 1]_vars
    /\ [][(hpc = "backoff" /\ hpc' # "backoff" /\ boots' = boots) =>
            /\ attempts' = attempts + 1
            /\ waits' = waits
            /\ reboots' = reboots
            /\ streak' = streak]_vars

C21_Witness ==
    /\ reboots = 1
    /\ attempts = 5
    /\ waits = 4

(* C22: a disconnect with reason code 0 is terminal: handling it makes no         *)
(* reconnect attempt, no backoff wait and no reboot request and leaves the        *)
(* counter as it is, whatever the counter's value; nothing of the kind follows    *)
(* while the link stays closed.                                                   *)
C22_VoluntaryDisconnectTerminal ==
    /\ [][(client # "closed" /\ client' = "closed") =>
            /\ reconnect_counter' = reconnect_counter
            /\ attempts' = attempts
            /\ waits' = waits
            /\ reboots' = reboots
            /\ streak' = streak
            /\ hpc' = hpc]_vars
    /\ [][(client = "closed" /\ pc # "off") =>
            /\ client' = "closed"
            /\ reconnect_counter' = reconnect_counter
            /\ attempts' = attempts
            /\ waits' = waits
            /\ reboots' = reboots]_vars

C22_Witness ==
    /\ client = "closed"
    /\ reconnect_counter \in 1..5
    /\ attempts = reconnect_counter

\* The link is connected, no disconnect handler is in progress and the counter is
\* not 0: a reset by on_connect was lost
LostReset ==
    /\ client = "up"
    /\ hpc # "backoff"
    /\ replaced = <<>>
    /\ reconnect_counter # 0

\* A step that makes a connect attempt: the handler's (lines 73, 76) or the
\* scheduler's before the publish (src/app.py lines 180-181)
ConnectAttempt ==
    \/ attempts' = attempts + 1
    \/ pc = "loop" /\ pc' = "publish" /\ client # "up"

====
